---- MODULE Spec2Model ----
(***************************************************************************)
(* ubuntu-package-installer.py: the install queue, the one-child process   *)
(* driver and the single-threaded event loop of main_ui.                   *)
(*                                                                         *)
(* One iteration of the while loop (a tick) is split at the points where   *)
(* the child process can interleave with it: the input read, the driver    *)
(* step (or the drain followed by the completion poll), and the statistics *)
(* / auto-scroll / redraw tail.  pc names the position inside the tick.    *)
(***************************************************************************)
EXTENDS Integers, Sequences, FiniteSets, TLC

(* ------------------------------ bounds -------------------------------- *)
\* lines of installed_packages.list
MaxLines == 2
\* lines one child writes to its merged stdout/stderr
MaxChildLines == 1
\* stdscr.getmaxyx(): the run is on a terminal of one of two heights, a small
\* one (the package list scrolls) and a taller one (a short log fits its pane)
MinHeight == 3
Height == 5

(* --------------------------- text and files --------------------------- *)
\* a line of text is a sequence of characters
Space == " "
Hash == "#"

\* raw lines a queue file is made of: two package lines (one indented),
\* a comment and a blank line
MasterLineSet == { <<"a">>, <<Space, "b">>, <<Hash, "a">>, <<Space>> }

\* raw lines a result log is made of; a log lists a line at most once, in any
\* order
LogLineSet == { <<"a">>, <<"b", Space>> }

SeqsUpTo(S, n) == UNION { [1..k -> S] : k \in 0..n }

\* the sequences over S that repeat no element
Listings(S) ==
    { f \in SeqsUpTo(S, Cardinality(S)) : \A i, j \in 1..Len(f) : f[i] = f[j] => i = j }

RECURSIVE LStrip(_)
LStrip(s) == IF s # <<>> /\ Head(s) = Space THEN LStrip(Tail(s)) ELSE s

RECURSIVE RStrip(_)
RStrip(s) ==
    IF s # <<>> /\ s[Len(s)] = Space THEN RStrip(SubSeq(s, 1, Len(s) - 1)) ELSE s

\* str.strip()
Strip(s) == RStrip(LStrip(s))

RECURSIVE TokenEnd(_, _)
TokenEnd(s, i) == IF i > Len(s) \/ s[i] = Space THEN i - 1 ELSE TokenEnd(s, i + 1)

\* line.split()[0]
FirstToken(s) == SubSeq(LStrip(s), 1, TokenEnd(LStrip(s), 1))

\* Package.__init__
Package(line) ==
    [ line   |-> Strip(line),
      name   |-> IF Strip(line) # <<>> THEN FirstToken(Strip(line)) ELSE <<>>,
      status |-> "QUEUED" ]

\* {line.strip() for line in f}
LoadSet(file) == { Strip(file[i]) : i \in 1..Len(file) }

\* the failure log is consulted before the success log
InitialStatusFailureFirst(p, success_lines, failure_lines) ==
    IF p.line \in failure_lines THEN "FAILURE"
    ELSE IF p.line \in success_lines THEN "SUCCESS"
    ELSE p.status

\* the status get_initial_packages gives a freshly built Package
InitialStatus(p, success_lines, failure_lines) ==
    IF p.line \in success_lines THEN "SUCCESS"
    ELSE IF p.line \in failure_lines THEN "FAILURE"
    ELSE p.status

RECURSIVE LoadPackages(_, _, _)
LoadPackages(file, success_lines, failure_lines) ==
    IF file = <<>> THEN <<>>
    ELSE LET line == Strip(Head(file))
             rest == LoadPackages(Tail(file), success_lines, failure_lines)
         IN  IF line = <<>> \/ Head(line) = Hash
             THEN rest
             ELSE LET p == Package(line)
                  IN  << [p EXCEPT !.status =
                            InitialStatus(p, success_lines, failure_lines)] >> \o rest

get_initial_packages(masterFile, successFile, failureFile) ==
    LoadPackages(masterFile, LoadSet(successFile), LoadSet(failureFile))


(* ------------------------------- state -------------------------------- *)
VARIABLES
    masterFile,        \* installed_packages.list: sequence of raw lines
    successFile,       \* installed_successfully.list: sequence of raw lines
    failureFile,       \* failed.list: sequence of raw lines
    packages,          \* main_ui: the Package list
    current_index,     \* main_ui: cursor, 0-based as in the code
    process,           \* main_ui: 0 for None, else the index in children of the Popen object
    pkg_start_time,    \* main_ui: 0, or 1 for the (positive) time.time() taken at launch
    output_lines,      \* main_ui: the log buffer; a line is the number of rows it wraps to
    stats_data,        \* main_ui: total, processed, times, etr
    scroll_offset,     \* main_ui: first visible row of the package list
    right_scroll_pos,  \* main_ui: first visible row of the log pad
    show_stats,
    show_help,
    needs_redraw,
    pc,                \* position in main_ui
    children,          \* the operating system's view of every child spawned in this run
    prechecks,         \* history: dpkg-query invocations per package
    tick_start_process,\* history: value of process when the current tick began
    commits,           \* history: curses.doupdate() calls in the current tick
    spawn_error,       \* history: 0, or the 1-based position of the job whose Popen raised
    height,            \* main_ui: rows of the terminal, read once at line 190
    scrollbar,         \* draw_package_list: row of the thumb at the last redraw, -1 for none
    tick_start_index,  \* history: value of current_index when the current tick began
    input_offset,      \* history: scroll_offset as the input step of the current tick left it
    precheck_result    \* history: outcome of dpkg-query in the current tick, "none" if not run

vars == << masterFile, successFile, failureFile, packages, current_index, process,
           pkg_start_time, output_lines, stats_data, scroll_offset, right_scroll_pos,
           show_stats, show_help, needs_redraw, pc, children, prechecks,
           tick_start_process, commits, spawn_error, height, scrollbar,
           tick_start_index, input_offset, precheck_result >>

\* what the run is given and never changes
env == << masterFile, successFile, failureFile, height >>

\* what HandleInput records about the tick it starts
tick_hist == << tick_start_process, tick_start_index, input_offset >>

files == << masterFile, successFile, failureFile >>
view == << scroll_offset, right_scroll_pos, show_stats, show_help, scrollbar >>

(* ------------------------------ helpers ------------------------------- *)
\* stats_data['etr'] is None
Undefined == << >>

Resolved == { "SUCCESS", "FAILURE", "SKIPPED" }

\* exit statuses a child can end with
ExitCodes == { 0, 137 }

\* a line a child writes, by the number of rows textwrap.wrap gives it: the
\* lines of child output are taken to fit one row of the pane
ChildLineSet == { 1 }

\* time.time() - pkg_start_time of a finished install, in seconds
Durations == { 1, 2 }

\* getch(): no key (or an unbound key), q, h, s and the four scroll keys
Keys == { "NONE", "q", "h", "s", "KEY_UP", "KEY_DOWN", "KEY_PPAGE", "KEY_NPAGE" }

Max(a, b) == IF a > b THEN a ELSE b
Min(a, b) == IF a < b THEN a ELSE b

RECURSIVE Sum(_)
Sum(s) == IF s = <<>> THEN 0 ELSE Head(s) + Sum(Tail(s))

CountStatus(pkgs, S) == Cardinality({ i \in 1..Len(pkgs) : pkgs[i].status \in S })

\* the first log buffer
WelcomeLines == << 1 >>

\* [f"Running: sudo apt-get install -y {pkg.name}", "-"*40]
BannerLines == << 1, 1 >>

\* max_list_lines = height - 2
MaxListLines == height - 2

\* a clamp that forgets the upper end
ClampScrollNoUpper(offset, total) == Max(0, offset)

\* max(0, min(offset, max(0, len(packages) - max_list_lines)))
ClampScroll(offset, total) == Max(0, Min(offset, Max(0, total - MaxListLines)))

\* the list stays where the keys left it
AutoScrollKeep(offset, index, total) == offset

\* lines 274-277: the list is recentred on the cursor, whatever offset it had
AutoScroll(offset, index, total) == ClampScroll(index - (MaxListLines \div 2), total)

\* a thumb is drawn for every list
ScrollbarPosAlways(total, offset) ==
    IF total - MaxListLines > 0
    THEN (offset * (MaxListLines - 1)) \div (total - MaxListLines)
    ELSE 0

\* draw_package_list, lines 126-130: the row of the scrollbar thumb, -1 when no
\* thumb is drawn
ScrollbarPos(total, offset) ==
    IF total > MaxListLines
    THEN (offset * (MaxListLines - 1)) \div (total - MaxListLines)
    ELSE -1

\* lines 283-284: the log pad follows the tail once the wrapped log is longer
\* than the pane, and is left where it was otherwise
LogScroll(old, rows) == IF rows > height - 3 THEN Max(0, rows - (height - 3)) ELSE old

\* a redraw only when something changed
ShouldRedrawOnChange(needs, proc) == needs

\* line 279: needs_redraw or process is not None
ShouldRedraw(needs, proc) == needs \/ proc # 0

\* the cursor leaves every job
CursorAfterAlways(index, status) == index + 1

\* lines 243-244: the cursor leaves the job unless it is being installed
CursorAfter(index, status) == IF status # "PROCESSING" THEN index + 1 ELSE index

\* the lines just read replace the buffer
DrainedReplace(lines, pipe) == pipe

\* lines 248-249: every line read is appended to the log buffer
Drained(lines, pipe) == lines \o pipe

\* what running dpkg-query can come to: exit 0, a nonzero exit
\* (CalledProcessError), no dpkg-query at all (FileNotFoundError)
DpkgOutcomes == { "installed", "not_installed", "error" }

\* lines 69-78
check_if_installed(outcome) == outcome = "installed"

\* a driver that also takes up the jobs recorded as failed
NeedsInstallRetry(status) == status \in { "QUEUED", "FAILURE" }

\* line 230: the driver pre-checks and installs only a job that is still QUEUED
NeedsInstall(status) == status = "QUEUED"

\* only a negative status (death by signal) counts as a failure
StatusOnExitSignalOnly(returncode) == IF returncode >= 0 THEN "SUCCESS" ELSE "FAILURE"

\* a failed install is put back in the queue
StatusOnExitRequeue(returncode) == IF returncode = 0 THEN "SUCCESS" ELSE "QUEUED"

\* a failed install leaves the job marked as in progress
StatusOnExitKeepsProcessing(returncode) == IF returncode = 0 THEN "SUCCESS" ELSE "PROCESSING"

\* status given to the job when process.poll() reports an exit
StatusOnExit(returncode) == IF returncode = 0 THEN "SUCCESS" ELSE "FAILURE"

\* a count that forgets the SKIPPED jobs
ProcessedNoSkipped(pkgs) == CountStatus(pkgs, { "SUCCESS", "FAILURE" })

\* stats_data['processed']
Processed(pkgs) == CountStatus(pkgs, Resolved)

\* an estimate that is computed once and then kept
EtrKept(times, pkgs, old) ==
    IF old # Undefined THEN old
    ELSE IF times # <<>>
    THEN << Sum(times) * CountStatus(pkgs, {"QUEUED"}), Len(times) >>
    ELSE old

\* stats_data['etr'] = avg_time * remaining_to_install, kept as an exact
\* fraction << numerator, denominator >>; left as it was while no duration is recorded
Etr(times, pkgs, old) ==
    IF times # <<>>
    THEN << Sum(times) * CountStatus(pkgs, {"QUEUED"}), Len(times) >>
    ELSE old

(* -------------------------------- Init -------------------------------- *)
Init ==
    /\ masterFile \in SeqsUpTo(MasterLineSet, MaxLines)
    /\ successFile \in Listings(LogLineSet)
    /\ failureFile \in Listings(LogLineSet)
    /\ packages = get_initial_packages(masterFile, successFile, failureFile)
    /\ current_index = 0
    /\ process = 0
    /\ pkg_start_time = 0
    /\ output_lines = WelcomeLines
    /\ stats_data = [ total |-> Len(packages), processed |-> 0, times |-> <<>>,
                      etr |-> Undefined ]
    /\ scroll_offset = 0
    /\ right_scroll_pos = 0
    /\ show_stats = TRUE
    /\ show_help = FALSE
    /\ needs_redraw = FALSE
    /\ pc = IF packages = <<>> THEN "exited" ELSE "input"
    /\ children = <<>>
    /\ prechecks = [ i \in 1..Len(packages) |-> 0 ]
    /\ tick_start_process = 0
    /\ commits = 0
    /\ spawn_error = 0
    /\ height \in { MinHeight, Height }
    /\ scrollbar = -1
    /\ tick_start_index = 0
    /\ input_offset = 0
    /\ precheck_result = "none"


(* ------------------------- the child processes ------------------------ *)
\* what subprocess.Popen starts: a running child with an empty pipe
NewChild(job) ==
    [ job |-> job, state |-> "running", returncode |-> -1, pipe |-> <<>>, written |-> 0 ]

\* process = None drops the Popen object: an exited child is reaped (a running
\* one keeps running) and the pipe is closed, whatever is still unread in it is
\* discarded
Reaped(child) ==
    [child EXCEPT !.state = IF @ = "exited" THEN "reaped" ELSE @,
                  !.pipe = <<>>, !.written = 0]

\* a test that takes a child still running for an exited one
HasExitedOrRuns(child) == child.state \in { "exited", "running" }

\* line 252: process.poll() is not None
HasExited(child) == child.state = "exited"

\* a running child writes one line to its merged stdout/stderr
ChildWrite(k) ==
    /\ children[k].state = "running"
    /\ children[k].written < MaxChildLines
    /\ \E line \in ChildLineSet :
          children' = [children EXCEPT ![k].pipe = Append(@, line),
                                       ![k].written = @ + 1]
    /\ UNCHANGED << env, packages, current_index, process, pkg_start_time,
                    output_lines, stats_data, view, needs_redraw, pc, prechecks, precheck_result,
                    tick_hist, commits, spawn_error >>

\* a running child exits with some status
ChildExit(k) ==
    /\ children[k].state = "running"
    /\ \E code \in ExitCodes :
          children' = [children EXCEPT ![k].state = "exited", ![k].returncode = code]
    /\ UNCHANGED << env, packages, current_index, process, pkg_start_time,
                    output_lines, stats_data, view, needs_redraw, pc, prechecks, precheck_result,
                    tick_hist, commits, spawn_error >>

(* ------------------------------ main_ui ------------------------------- *)
\* an input step whose q also terminates the child in flight and fails its job
HandleInputQuitTerminates ==
    /\ pc = "input"
    /\ tick_start_process' = process
    /\ tick_start_index' = current_index
    /\ precheck_result' = "none"
    /\ commits' = 0
    /\ \E key \in Keys :
          /\ pc' = IF key = "q" THEN "ended" ELSE "driver"
          /\ show_help' = IF key = "h" THEN ~show_help ELSE show_help
          /\ show_stats' = IF key = "s" THEN ~show_stats ELSE show_stats
          /\ scroll_offset' =
                CASE key = "KEY_UP"    -> ClampScroll(scroll_offset - 1, Len(packages))
                  [] key = "KEY_DOWN"  -> ClampScroll(scroll_offset + 1, Len(packages))
                  [] key = "KEY_PPAGE" -> ClampScroll(scroll_offset - MaxListLines, Len(packages))
                  [] key = "KEY_NPAGE" -> ClampScroll(scroll_offset + MaxListLines, Len(packages))
                  [] OTHER             -> scroll_offset
          /\ needs_redraw' = (key \notin { "NONE", "q" })
          /\ IF key = "q" /\ process # 0
             THEN /\ packages' = [packages EXCEPT ![current_index + 1].status = "FAILURE"]
                  /\ children' = [children EXCEPT ![process] = Reaped(@)]
                  /\ process' = 0
             ELSE UNCHANGED << packages, children, process >>
    /\ input_offset' = scroll_offset'
    /\ UNCHANGED << env, current_index, pkg_start_time, output_lines, stats_data,
                    right_scroll_pos, scrollbar, prechecks, spawn_error >>

\* lines 209-225: needs_redraw = False, then the key read by getch()
HandleInput ==
    /\ pc = "input"
    /\ tick_start_process' = process
    /\ tick_start_index' = current_index
    /\ precheck_result' = "none"
    /\ commits' = 0
    /\ \E key \in Keys :
          /\ pc' = IF key = "q" THEN "ended" ELSE "driver"
          /\ show_help' = IF key = "h" THEN ~show_help ELSE show_help
          /\ show_stats' = IF key = "s" THEN ~show_stats ELSE show_stats
          /\ scroll_offset' =
                CASE key = "KEY_UP"    -> ClampScroll(scroll_offset - 1, Len(packages))
                  [] key = "KEY_DOWN"  -> ClampScroll(scroll_offset + 1, Len(packages))
                  [] key = "KEY_PPAGE" -> ClampScroll(scroll_offset - MaxListLines, Len(packages))
                  [] key = "KEY_NPAGE" -> ClampScroll(scroll_offset + MaxListLines, Len(packages))
                  [] OTHER             -> scroll_offset
          /\ needs_redraw' = (key \notin { "NONE", "q" })
    /\ input_offset' = scroll_offset'
    /\ UNCHANGED << env, packages, current_index, process, pkg_start_time,
                    output_lines, stats_data, right_scroll_pos, scrollbar, children,
                    prechecks, spawn_error >>

\* lines 228-245, the job at the cursor is not QUEUED: step over it
StepOver ==
    /\ pc = "driver"
    /\ process = 0
    /\ ~NeedsInstall(packages[current_index + 1].status)
    /\ current_index' = CursorAfter(current_index, packages[current_index + 1].status)
    /\ needs_redraw' = TRUE
    /\ pc' = "finish"
    /\ UNCHANGED << env, packages, process, pkg_start_time, output_lines, stats_data,
                    view, children, prechecks, precheck_result, tick_hist, commits,
                    spawn_error >>

\* lines 230-232, 243-245: check_if_installed returns True
PreCheckSkip ==
    /\ pc = "driver"
    /\ process = 0
    /\ NeedsInstall(packages[current_index + 1].status)
    /\ \E outcome \in DpkgOutcomes :
          /\ check_if_installed(outcome)
          /\ precheck_result' = outcome
    /\ prechecks' = [prechecks EXCEPT ![current_index + 1] = @ + 1]
    /\ packages' = [packages EXCEPT ![current_index + 1].status = "SKIPPED"]
    /\ current_index' = CursorAfter(current_index, "SKIPPED")
    /\ needs_redraw' = TRUE
    /\ pc' = "finish"
    /\ UNCHANGED << env, process, pkg_start_time, output_lines, stats_data, view,
                    children, tick_hist, commits, spawn_error >>

\* lines 230-245: check_if_installed returns False (not installed, or dpkg-query
\* missing or failing), and Popen starts the child
Launch ==
    /\ pc = "driver"
    /\ process = 0
    /\ NeedsInstall(packages[current_index + 1].status)
    /\ \E outcome \in DpkgOutcomes :
          /\ ~check_if_installed(outcome)
          /\ precheck_result' = outcome
    /\ prechecks' = [prechecks EXCEPT ![current_index + 1] = @ + 1]
    /\ packages' = [packages EXCEPT ![current_index + 1].status = "PROCESSING"]
    /\ output_lines' = BannerLines
    /\ children' = Append(children, NewChild(current_index + 1))
    /\ process' = Len(children) + 1
    /\ pkg_start_time' = 1
    /\ current_index' = CursorAfter(current_index, "PROCESSING")
    /\ needs_redraw' = TRUE
    /\ pc' = "finish"
    /\ UNCHANGED << env, stats_data, view, tick_hist, commits, spawn_error >>

\* lines 230-237: check_if_installed returns False and Popen raises
\* FileNotFoundError (no sudo on PATH); nothing in main_ui catches it
SpawnError ==
    /\ pc = "driver"
    /\ process = 0
    /\ NeedsInstall(packages[current_index + 1].status)
    /\ \E outcome \in DpkgOutcomes :
          /\ ~check_if_installed(outcome)
          /\ precheck_result' = outcome
    /\ prechecks' = [prechecks EXCEPT ![current_index + 1] = @ + 1]
    /\ packages' = [packages EXCEPT ![current_index + 1].status = "PROCESSING"]
    /\ output_lines' = BannerLines
    /\ spawn_error' = current_index + 1
    /\ pc' = "crashed"
    /\ UNCHANGED << env, current_index, process, pkg_start_time, stats_data, view,
                    needs_redraw, children, tick_hist, commits >>

\* lines 247-250: read every line now in the pipe
Drain ==
    /\ pc = "driver"
    /\ process # 0
    /\ output_lines' = Drained(output_lines, children[process].pipe)
    /\ children' = [children EXCEPT ![process].pipe = <<>>]
    /\ needs_redraw' = (needs_redraw \/ children[process].pipe # <<>>)
    /\ pc' = "poll"
    /\ UNCHANGED << env, packages, current_index, process, pkg_start_time, stats_data,
                    view, prechecks, precheck_result, tick_hist, commits, spawn_error >>

\* line 252: process.poll() is None
PollRunning ==
    /\ pc = "poll"
    /\ ~HasExited(children[process])
    /\ pc' = "finish"
    /\ UNCHANGED << env, packages, current_index, process, pkg_start_time,
                    output_lines, stats_data, view, needs_redraw, children, prechecks, precheck_result,
                    tick_hist, commits, spawn_error >>

\* lines 252-263: process.poll() reports the exit status
PollExited ==
    /\ pc = "poll"
    /\ HasExited(children[process])
    /\ packages' = [packages EXCEPT ![current_index + 1].status =
                        StatusOnExit(children[process].returncode)]
    /\ \E duration \in Durations :
          stats_data' = [stats_data EXCEPT !.times =
              IF children[process].returncode = 0 /\ pkg_start_time > 0
              THEN Append(@, duration) ELSE @]
    /\ children' = [children EXCEPT ![process] = Reaped(@)]
    /\ process' = 0
    /\ pkg_start_time' = 0
    /\ current_index' = current_index + 1
    /\ needs_redraw' = TRUE
    /\ pc' = "finish"
    /\ UNCHANGED << env, output_lines, view, prechecks, precheck_result, tick_hist, commits,
                    spawn_error >>

\* lines 266-293: statistics, auto-scroll, redraw, and the loop test of line 208
Finish ==
    /\ pc = "finish"
    /\ stats_data' = [stats_data EXCEPT
                        !.processed = Processed(packages),
                        !.etr = Etr(stats_data.times, packages, @)]
    /\ scroll_offset' = AutoScroll(scroll_offset, current_index, Len(packages))
    /\ IF ShouldRedraw(needs_redraw, process)
       THEN /\ right_scroll_pos' = LogScroll(right_scroll_pos, Sum(output_lines))
            /\ scrollbar' = ScrollbarPos(Len(packages), scroll_offset')
            /\ commits' = commits + 1
       ELSE UNCHANGED << right_scroll_pos, scrollbar, commits >>
    /\ pc' = IF current_index < Len(packages) THEN "input" ELSE "ended"
    /\ UNCHANGED << env, packages, current_index, process, pkg_start_time,
                    output_lines, show_stats, show_help, needs_redraw, children,
                    prechecks, precheck_result, tick_hist, spawn_error >>

\* lines 296-303: the status bar, then block until q is pressed
Acknowledge ==
    /\ pc = "ended"
    /\ pc' = "exited"
    /\ UNCHANGED << env, packages, current_index, process, pkg_start_time,
                    output_lines, stats_data, view, needs_redraw, children, prechecks, precheck_result,
                    tick_hist, commits, spawn_error >>

\* one step of the while loop of main_ui
LoopStep ==
    \/ HandleInput
    \/ StepOver
    \/ PreCheckSkip
    \/ Launch
    \/ SpawnError
    \/ Drain
    \/ PollRunning
    \/ PollExited
    \/ Finish

Next ==
    \/ HandleInput
    \/ StepOver
    \/ PreCheckSkip
    \/ Launch
    \/ SpawnError
    \/ Drain
    \/ PollRunning
    \/ PollExited
    \/ Finish
    \/ Acknowledge
    \/ \E k \in 1..Len(children) : ChildWrite(k)
    \/ \E k \in 1..Len(children) : ChildExit(k)

Spec == Init /\ [][Next]_vars

\* the single thread of main_ui keeps running, the final getch() returns, and
\* every spawned child eventually exits
FairSpec ==
    /\ Spec
    /\ WF_vars(LoopStep)
    /\ WF_vars(Acknowledge)
    /\ WF_vars(\E k \in 1..Len(children) : ChildExit(k))


(* ------------------------------ claims -------------------------------- *)
\* the package list as it was loaded (the three files never change, see C2)
InitialPackages == get_initial_packages(masterFile, successFile, failureFile)

StatusOf(i) == packages[i].status

\* the status lines 93-94 gave job i at load time, from the job's line (never
\* changed afterwards) and the two result logs: InitialPackages[i].status
LoadedStatus(i) ==
    InitialStatus([packages[i] EXCEPT !.status = "QUEUED"],
                  LoadSet(successFile), LoadSet(failureFile))

\* number of children Popen started for job i
Spawns(i) == Cardinality({ k \in 1..Len(children) : children[k].job = i })

LiveChildren == { k \in 1..Len(children) : children[k].state = "running" }

\* the user pressed q: the loop was left with the cursor still inside the queue
Quit == pc \in { "ended", "exited" } /\ current_index < Len(packages)

\* C1: if spawning the installer for the job at the cursor fails, that job ends
\* with status FAILURE, the event loop does not crash and the cursor advances
\* past the job.
C1_SpawnFailureIsLocal ==
    spawn_error # 0 =>
        /\ StatusOf(spawn_error) = "FAILURE"
        /\ pc # "crashed"
        /\ current_index >= spawn_error

\* C2: every job that went to SUCCESS or to FAILURE during the run has had its
\* key emitted with that outcome, so that the key is in the matching result log.
C2_OutcomeEmitted ==
    \A i \in 1..Len(packages) :
        /\ (StatusOf(i) = "SUCCESS" /\ InitialPackages[i].status # "SUCCESS")
              => packages[i].line \in LoadSet(successFile)
        /\ (StatusOf(i) = "FAILURE" /\ InitialPackages[i].status # "FAILURE")
              => packages[i].line \in LoadSet(failureFile)


\* C3: at the end of every tick, processed + (number of QUEUED jobs) + (1 if a
\* job is PROCESSING, else 0) equals total.
C3_ProgressAccounting ==
    [][ (pc = "finish" /\ pc' # "finish") =>
            stats_data'.processed
              + CountStatus(packages', { "QUEUED" })
              + (IF \E i \in 1..Len(packages') : packages'[i].status = "PROCESSING"
                 THEN 1 ELSE 0)
            = stats_data'.total ]_vars

\* a tick has ended with one job resolved and another one being installed
C3_Witness ==
    /\ pc = "input"
    /\ stats_data.processed >= 1
    /\ \E i \in 1..Len(packages) : StatusOf(i) = "PROCESSING"

\* the status changes main_ui may make
AllowedMoves ==
    { << "QUEUED", "SKIPPED" >>, << "QUEUED", "PROCESSING" >>,
      << "PROCESSING", "SUCCESS" >>, << "PROCESSING", "FAILURE" >> }

\* C4: a job's status only moves QUEUED -> {SKIPPED | PROCESSING} and
\* PROCESSING -> {SUCCESS | FAILURE}; it never returns to QUEUED, and SUCCESS,
\* FAILURE and SKIPPED never change.
C4_MonotonicStatus ==
    [][ /\ Len(packages') = Len(packages)
        /\ \A i \in 1..Len(packages) :
              \/ packages'[i].status = packages[i].status
              \/ << packages[i].status, packages'[i].status >> \in AllowedMoves ]_vars

\* a job went all the way from QUEUED to FAILURE and the loop went on
C4_Witness ==
    \E i \in 1..Len(packages) :
        /\ InitialPackages[i].status = "QUEUED"
        /\ StatusOf(i) = "FAILURE"
        /\ current_index >= i
        /\ pc = "input"

\* C5: at most one job is PROCESSING and at most one child is live, and a child
\* is spawned only in a tick that began with no live child.
C5_OneChildAtATime ==
    /\ [](Cardinality({ i \in 1..Len(packages) : StatusOf(i) = "PROCESSING" }) <= 1)
    /\ [](Cardinality(LiveChildren) <= 1)
    /\ [][ Len(children') > Len(children) => tick_start_process = 0 ]_vars

\* a second child runs after the first one was reaped
C5_Witness ==
    /\ Len(children) >= 2
    /\ children[1].state = "reaped"
    /\ children[2].state = "running"
    /\ StatusOf(children[2].job) = "PROCESSING"


\* nothing has run yet: the package list is as get_initial_packages returned it
JustLoaded == pc = "input" /\ current_index = 0 /\ process = 0 /\ children = <<>>

\* C6: the initial status of a job depends only on the membership of its key in
\* the success and failure key sets (SUCCESS if in the success set, also when in
\* both; FAILURE if only in the failure set; QUEUED otherwise), and loading with
\* the same two sets listed in any other order gives the same statuses.
C6_ResumeStatus ==
    JustLoaded =>
        /\ \A i \in 1..Len(packages) :
              StatusOf(i) =
                 IF packages[i].line \in LoadSet(successFile) THEN "SUCCESS"
                 ELSE IF packages[i].line \in LoadSet(failureFile) THEN "FAILURE"
                 ELSE "QUEUED"
        /\ \A sf, ff \in Listings(LogLineSet) :
              (LoadSet(sf) = LoadSet(successFile) /\ LoadSet(ff) = LoadSet(failureFile))
                 => get_initial_packages(masterFile, sf, ff) = packages

\* loaded with each log listing two keys, the key of some job in both logs
C6_Witness ==
    /\ JustLoaded
    /\ Len(successFile) = 2
    /\ Len(failureFile) = 2
    /\ \E i \in 1..Len(packages) :
          /\ packages[i].line \in LoadSet(successFile) \cap LoadSet(failureFile)
          /\ StatusOf(i) = "SUCCESS"

\* C7: the installer is spawned, and the pre-check run, at most once per job and
\* never for a job loaded as SUCCESS or FAILURE; such a job keeps its status.
C7_NoReinstall ==
    \A i \in 1..Len(packages) :
        /\ Spawns(i) <= 1
        /\ prechecks[i] <= 1
        /\ LoadedStatus(i) \in { "SUCCESS", "FAILURE" } =>
              /\ Spawns(i) = 0
              /\ prechecks[i] = 0
              /\ StatusOf(i) = LoadedStatus(i)
        /\ StatusOf(i) = "FAILURE" => \A k \in LiveChildren : children[k].job # i

\* the cursor has stepped over a job loaded as FAILURE, and another job was
\* installed once and failed
C7_Witness ==
    \E i, j \in 1..Len(packages) :
        /\ InitialPackages[i].status = "FAILURE"
        /\ current_index >= i
        /\ InitialPackages[j].status = "QUEUED"
        /\ Spawns(j) = 1
        /\ StatusOf(j) = "FAILURE"
        /\ current_index >= j

\* C8: when the completion poll finds the child exited, exit code 0 gives SUCCESS
\* and appends exactly one duration, any other code gives FAILURE and appends
\* nothing; either way the running process is cleared and the cursor advances by
\* one, and the loop goes on.
C8_CompletionPoll ==
    [][ (pc = "poll" /\ pc' # "poll" /\ children[process].state = "exited") =>
          LET code == children[process].returncode
              i    == current_index + 1
          IN  /\ code = 0 =>
                    /\ packages'[i].status = "SUCCESS"
                    /\ Len(stats_data'.times) = Len(stats_data.times) + 1
                    /\ SubSeq(stats_data'.times, 1, Len(stats_data.times))
                          = stats_data.times
              /\ code # 0 =>
                    /\ packages'[i].status = "FAILURE"
                    /\ stats_data'.times = stats_data.times
              /\ process' = 0
              /\ current_index' = current_index + 1
              /\ pc' = "finish" ]_vars

\* a child that exited with 137 was polled: its job is FAILURE, the process is
\* cleared, the cursor is past the job and the tick goes on
C8_Witness ==
    \E k \in 1..Len(children) :
        /\ children[k].state = "reaped"
        /\ children[k].returncode = 137
        /\ StatusOf(children[k].job) = "FAILURE"
        /\ process = 0
        /\ current_index = children[k].job
        /\ pc = "finish"

\* the normal terminal state of the loop
NormalEnd ==
    /\ pc \in { "ended", "exited" }
    /\ current_index = Len(packages)
    /\ process = 0
    /\ LiveChildren = {}
    /\ \A i \in 1..Len(packages) : StatusOf(i) \in Resolved
    /\ stats_data.processed = stats_data.total

\* scenario A: two jobs, both found not installed, both installers exit 0
ScenarioA ==
    /\ Len(packages) = 2
    /\ Len(children) = 2
    /\ \A k \in 1..2 : children[k].job = k /\ children[k].returncode = 0

\* C9: if the user never quits and every spawned child eventually exits, the
\* loop eventually reaches its normal terminal state (cursor past the last job,
\* no child live, no job QUEUED or PROCESSING, processed = total); with two
\* not-installed jobs whose installers exit 0 it ends with [SUCCESS, SUCCESS] and
\* processed = 2.
C9_ReachesNormalEnd ==
    /\ ([]~Quit) => <>NormalEnd
    /\ []((NormalEnd /\ ScenarioA) =>
            /\ StatusOf(1) = "SUCCESS"
            /\ StatusOf(2) = "SUCCESS"
            /\ stats_data.processed = 2)

\* C10: after a tick's statistics recomputation etr is undefined while
\* completedDurations is empty, and otherwise equals mean(completedDurations)
\* times the number of jobs QUEUED now.
C10_EtrContract ==
    pc \in { "input", "ended", "exited" } =>
        IF stats_data.times = <<>>
        THEN stats_data.etr = Undefined
        ELSE /\ stats_data.etr # Undefined
             /\ stats_data.etr[1] * Len(stats_data.times)
                   = Sum(stats_data.times) * CountStatus(packages, { "QUEUED" })
                        * stats_data.etr[2]

\* a tick ended with a duration recorded and a job still queued behind the
\* finished install: etr is a positive time
C10_Witness ==
    /\ pc = "input"
    /\ stats_data.times # <<>>
    /\ stats_data.etr # Undefined
    /\ stats_data.etr[1] > 0
    /\ CountStatus(packages, { "QUEUED" }) >= 1


\* max(0, total - visibleRows)
MaxScroll == Max(0, Len(packages) - (height - 2))

\* C11: for every sequence of scroll keys interleaved with job progress the
\* list scroll offset is within [0, max(0, total - visibleRows)] after the input
\* step and after the auto-scroll step; when total <= visibleRows it stays 0 and
\* no scrollbar thumb is drawn.
C11_ScrollBound ==
    /\ scroll_offset \in 0..MaxScroll
    /\ input_offset \in 0..MaxScroll
    /\ Len(packages) <= height - 2 => (scroll_offset = 0 /\ scrollbar = -1)
    /\ scrollbar # -1 => Len(packages) > height - 2

\* a scroll key has moved the list to its last position, away from the cursor
C11_Witness ==
    /\ pc = "driver"
    /\ current_index = 0
    /\ MaxScroll > 0
    /\ scroll_offset = MaxScroll
    /\ scrollbar # -1


\* (cursor index - visibleRows div 2) clamped to [0, max(0, total - visibleRows)]
Recentred == Max(0, Min(current_index - ((height - 2) \div 2), MaxScroll))

\* C12: at the end of every tick the list scroll offset is the cursor index
\* minus half the visible rows, clamped, whatever scroll keys were pressed; the
\* list is drawn at that offset, never at the one a key of that tick set.
C12_AutoScrollOverrides ==
    pc \in { "input", "ended", "exited" } =>
        /\ scroll_offset = Recentred
        /\ (commits > 0 /\ Len(packages) > height - 2) =>
              scrollbar = (Recentred * (height - 3)) \div MaxScroll

\* a tick has ended and redrawn with the list back on the cursor, after a scroll
\* key of that tick had moved it elsewhere
C12_Witness ==
    /\ pc = "input"
    /\ commits = 1
    /\ input_offset # scroll_offset
    /\ scroll_offset = Recentred


\* what a child does by itself: write a line, or exit
ChildOnly(k) ==
    \/ /\ children[k].state = "running"
       /\ children'[k].state \in { "running", "exited" }
    \/ children'[k] = children[k]

\* C13: a quit key ends the loop in the tick in which it is read, before the
\* driver step: no status changes, the cursor does not move, no child is spawned,
\* a child in flight is neither terminated nor waited for and its job stays
\* PROCESSING, and the QUEUED jobs stay QUEUED with no outcome recorded.
C13_QuitFrame ==
    [][ ((pc = "input" /\ pc' = "ended") \/ Quit) =>
          /\ pc' \in { "ended", "exited" }
          /\ packages' = packages
          /\ current_index' = current_index
          /\ process' = process
          /\ Len(children') = Len(children)
          /\ \A k \in 1..Len(children) : ChildOnly(k)
          /\ stats_data' = stats_data
          /\ files' = files ]_vars

\* the user has quit with the first job being installed and a job still queued
C13_Witness ==
    /\ Quit
    /\ process # 0
    /\ children[process].state = "running"
    /\ StatusOf(current_index + 1) = "PROCESSING"
    /\ \E i \in 1..Len(packages) : StatusOf(i) = "QUEUED"


\* C14: when the cursor reaches a QUEUED job with no child live the pre-check
\* runs exactly once for it; if it reports the package installed the job becomes
\* SKIPPED, the cursor advances in the same tick and no child is spawned; if it
\* reports not installed, or fails itself, the job becomes PROCESSING, a child is
\* spawned and the cursor does not advance.
C14_PreCheckDecides ==
    precheck_result # "none" =>
        LET i == tick_start_index + 1
        IN  /\ tick_start_process = 0
            /\ prechecks[i] = 1
            /\ IF precheck_result = "installed"
               THEN /\ StatusOf(i) = "SKIPPED"
                    /\ current_index = tick_start_index + 1
                    /\ process = 0
                    /\ Spawns(i) = 0
               ELSE /\ StatusOf(i) = "PROCESSING"
                    /\ current_index = tick_start_index
                    /\ Spawns(i) = 1
                    /\ process # 0
                    /\ children[process].job = i


\* s is a prefix of t
IsPrefix(s, t) == Len(s) <= Len(t) /\ SubSeq(t, 1, Len(s)) = s

\* the step moves a job from QUEUED to PROCESSING
Launches ==
    \E i \in 1..Len(packages) :
        packages[i].status = "QUEUED" /\ packages'[i].status = "PROCESSING"

\* C15: the log buffer is replaced, by the banner of the new job, only in a tick
\* that moves a job from QUEUED to PROCESSING; in every other tick (one that
\* skips a job, steps over a resolved job or completes a job included) lines are
\* only appended to it, and only while a child is live.
C15_LogAppendOnly ==
    [][ IF Launches
        THEN output_lines' = BannerLines
        ELSE /\ IsPrefix(output_lines, output_lines')
             /\ output_lines' # output_lines => process # 0 ]_vars

\* the child's output was appended behind the banner of its job
C15_Witness ==
    /\ pc = "poll"
    /\ process # 0
    /\ Len(output_lines) > Len(BannerLines)
    /\ IsPrefix(BannerLines, output_lines)


\* C16: the cursor never decreases; it increases by at most one per tick, and
\* only past a job that is SUCCESS, FAILURE or SKIPPED at the end of the driver
\* step, never past a job that is QUEUED or PROCESSING.
C16_CursorMonotonic ==
    /\ [](current_index \in { tick_start_index, tick_start_index + 1 })
    /\ [][ /\ current_index' >= current_index
           /\ current_index' # current_index =>
                 /\ current_index' = current_index + 1
                 /\ pc' = "finish"
                 /\ packages'[current_index + 1].status \in Resolved ]_vars

\* the cursor has gone past a job it skipped and past a job that was installed
C16_Witness ==
    /\ current_index >= 2
    /\ StatusOf(1) = "SKIPPED"
    /\ StatusOf(2) \in { "SUCCESS", "FAILURE" }
    /\ Spawns(2) = 1


\* something the loop keeps changed in the tick now ending: the cursor or the
\* running process moved, or the input or drain step flagged a change
TickChanged ==
    \/ current_index # tick_start_index
    \/ process # tick_start_process
    \/ needs_redraw

\* C17: in every tick that does not quit the screen is committed at most once,
\* and it is committed if and only if some state changed in the tick or a child
\* is live at the end of the driver step.
C17_CoalescedRedraw ==
    /\ [](commits <= 1)
    /\ [][ (pc = "finish" /\ pc' # "finish") =>
              /\ commits = 0
              /\ (commits' = 1) <=> (TickChanged \/ process # 0) ]_vars

\* a tick with no key, no output and no progress was drawn once all the same,
\* because its child is live
C17_Witness ==
    /\ pc = "input"
    /\ commits = 1
    /\ process # 0
    /\ ~needs_redraw
    /\ current_index = tick_start_index
    /\ process = tick_start_process


\* rows of the log pane, and the offset that shows the tail of a log of
\* `rows` wrapped rows
PaneRows == height - 3

TailOffset(rows) == Max(0, rows - PaneRows)

\* C18: at every redraw the log pane shows the tail of the current log buffer:
\* the log scroll offset is max(0, wrapped rows - pane rows), and so it is 0
\* after the buffer was reset for a new job whose output still fits the pane.
C18_LogTail ==
    commits > 0 => right_scroll_pos = TailOffset(Sum(output_lines))


\* C19: every line the child wrote before exiting is in the log buffer by the
\* time its job is marked SUCCESS or FAILURE: when the running process is
\* cleared, no output is left unread in its pipe.
C19_NoOutputLost ==
    [][ (process # 0 /\ process' = 0) => children[process].pipe = <<>> ]_vars


\* C20: at every tick boundary while the loop runs, a child is live if and
\* only if the job at the cursor is PROCESSING, every job before the cursor is
\* SUCCESS, FAILURE or SKIPPED, and every job after the cursor still has the
\* status it was loaded with.
C20_CursorPartition ==
    pc = "input" =>
       /\ current_index < Len(packages)
       /\ (process # 0) <=> (StatusOf(current_index + 1) = "PROCESSING")
       /\ \A i \in 1..current_index : StatusOf(i) \in Resolved
       /\ \A i \in (current_index + 2)..Len(packages) :
             StatusOf(i) = LoadedStatus(i)

\* the second job is being installed after the first one was installed by
\* this run
C20_Witness ==
    /\ pc = "input"
    /\ current_index = 1
    /\ process # 0
    /\ StatusOf(2) = "PROCESSING"
    /\ InitialPackages[1].status = "QUEUED"
    /\ StatusOf(1) \in { "SUCCESS", "FAILURE" }

\* the first job is being installed while a second one waits behind the cursor
C20_WitnessAfter ==
    /\ pc = "input"
    /\ current_index = 0
    /\ process # 0
    /\ Len(packages) = 2
    /\ StatusOf(2) = InitialPackages[2].status

====
